---- MODULE Spec2Model ----
(***************************************************************************)
(* Model of scripts/generate_policy_doc.py: the RLS policy coverage report. *)
(*                                                                         *)
(* Text is a sequence of one-character strings, so that the two regular    *)
(* expressions of the script are evaluated character by character.  A file *)
(* name is text too.  A line of the report is its template (kind) together *)
(* with the values the f-string interpolates into it (args).               *)
(***************************************************************************)
EXTENDS Integers, Sequences, FiniteSets, TLC

\* ---------------------------------------------------------------- bounds
MaxFrags == 2      \* statements per enumerated schema file
MaxRuns == 2       \* invocations of the script over the same inputs

\* ------------------------------------------------------------ characters
UpperAlpha == <<"A","B","C","D","E","F","G","H","I","J","K","L","M",
                "N","O","P","Q","R","S","T","U","V","W","X","Y","Z">>
LowerAlpha == <<"a","b","c","d","e","f","g","h","i","j","k","l","m",
                "n","o","p","q","r","s","t","u","v","w","x","y","z">>
DigitChars == <<"0","1","2","3","4","5","6","7","8","9">>

\* code-point order of the characters that occur in file names
Ascii == <<"-", ".">> \o DigitChars \o UpperAlpha \o <<"_">> \o LowerAlpha

Range(s) == {s[i] : i \in DOMAIN s}

Letters == Range(UpperAlpha) \cup Range(LowerAlpha)
Digit == Range(DigitChars)
IsLetter(c) == c \in Letters
IsDigit(c) == c \in Digit

\* re.IGNORECASE compares characters after case folding
Folded ==
    [c \in Range(UpperAlpha) |->
        LowerAlpha[CHOOSE i \in DOMAIN UpperAlpha : UpperAlpha[i] = c]]
Lower(c) == IF c \in DOMAIN Folded THEN Folded[c] ELSE c

IsSpace(c) == c \in {" ", "\t", "\n"}                        \* \s
IsWord(c) == IsLetter(c) \/ IsDigit(c) \/ c = "_"            \* \w
IsNameChar(c) == IsWord(c) \/ c = "-"                        \* [\w-]
IsNotQuote(c) == c # "\""                                    \* [^"]
IsTableChar(c) == IsWord(c) \/ c = "." \/ c = "\""           \* [\w\."]

CodePoint == [c \in Range(Ascii) |-> CHOOSE i \in DOMAIN Ascii : Ascii[i] = c]
Ord(c) == CodePoint[c]

\* ------------------------------------------------------ regex primitives
kw_create == <<"c", "r", "e", "a", "t", "e">>
kw_policy == <<"p", "o", "l", "i", "c", "y">>
kw_on == <<"o", "n">>

\* a literal matched case-insensitively at position i
LitAt(text, i, lit) ==
    /\ i + Len(lit) - 1 <= Len(text)
    /\ \A k \in 1..Len(lit) : Lower(text[i + k - 1]) = Lower(lit[k])

\* end (exclusive) of the maximal run of Cls characters starting at i
InClass(c, cls) ==
    CASE cls = "space" -> IsSpace(c)
      [] cls = "name" -> IsNameChar(c)
      [] cls = "notquote" -> IsNotQuote(c)
      [] cls = "table" -> IsTableChar(c)

RunEnd(text, i, cls) ==
    CHOOSE j \in i..(Len(text) + 1) :
        /\ \A k \in i..(j - 1) : InClass(text[k], cls)
        /\ (j = Len(text) + 1 \/ ~InClass(text[j], cls))

\* POLICY_PATTERN anchored at position i, stage by stage.  Every quantifier
\* is greedy and is followed by a character outside its class, so each stage
\* takes the maximal run.
NoMatch(i) == [ok |-> FALSE, end |-> i, name |-> <<>>, table |-> <<>>]

\* ([\w\."]+) at position k
MatchTable(text, i, name, k) ==
    LET m == RunEnd(text, k, "table")
    IN  IF m > k
        THEN [ok |-> TRUE, end |-> m, name |-> name, table |-> SubSeq(text, k, m - 1)]
        ELSE NoMatch(i)

\* \s+on\s+ at position f, then the table
MatchOn(text, i, name, f) ==
    LET g == RunEnd(text, f, "space")
        k == RunEnd(text, g + 2, "space")
    IN  IF g > f /\ LitAt(text, g, kw_on) /\ k > g + 2
        THEN MatchTable(text, i, name, k)
        ELSE NoMatch(i)

\* (?:"([^"]+)"|([\w-]+)) at position d: group(1) or group(2)
MatchName(text, i, d) ==
    IF d <= Len(text) /\ text[d] = "\""
    THEN LET e == RunEnd(text, d + 1, "notquote")
         IN  IF e > d + 1 /\ e <= Len(text)
             THEN MatchOn(text, i, SubSeq(text, d + 1, e - 1), e + 1)
             ELSE NoMatch(i)
    ELSE LET e == RunEnd(text, d, "name")
         IN  IF e > d
             THEN MatchOn(text, i, SubSeq(text, d, e - 1), e)
             ELSE NoMatch(i)

\* create\s+policy\s+ at position i: the position after it, 0 when no match
AfterCreatePolicy(text, i) ==
    IF ~LitAt(text, i, kw_create) THEN 0
    ELSE LET b == RunEnd(text, i + 6, "space")
             d == RunEnd(text, b + 6, "space")
         IN  IF b > i + 6 /\ LitAt(text, b, kw_policy) /\ d > b + 6
             THEN d
             ELSE 0

PolicyMatchAt(text, i) ==
    LET d == AfterCreatePolicy(text, i)
    IN  IF d = 0 THEN NoMatch(i) ELSE MatchName(text, i, d)

\* POLICY_PATTERN.finditer(text): leftmost matches, left to right, each scan
\* resuming where the previous match ended
RECURSIVE FindIterFrom(_, _)
FindIterFrom(text, pos) ==
    IF pos > Len(text) THEN <<>>
    ELSE LET m == PolicyMatchAt(text, pos)
         IN  IF m.ok THEN <<m>> \o FindIterFrom(text, m.end)
                     ELSE FindIterFrom(text, pos + 1)

FindIter(text) == FindIterFrom(text, 1)

\* name_pattern.search(migration_text), name_pattern being
\* create\s+policy\s+"?<escaped name>"? : the escaped name is a literal, the
\* quotes are optional, and nothing is required after the name
NameSearch(name, text) ==
    \E i \in 1..Len(text) :
      LET after == AfterCreatePolicy(text, i)
      IN
        /\ after # 0
        /\ \E d \in 2..after :
              \* \s+ may give back all but one of the blanks it took
              /\ \A k \in (d - 1)..(after - 1) : IsSpace(text[k])
              /\ \/ LitAt(text, d, name)
                 \/ /\ d <= Len(text)
                    /\ text[d] = "\""
                    /\ LitAt(text, d + 1, name)

\* ------------------------------------------------------------ file names
a_sql == <<"a", ".", "s", "q", "l">>
b_sql == <<"b", ".", "s", "q", "l">>
n_txt == <<"n", ".", "t", "x", "t">>
x_sql == <<"x", ".", "s", "q", "l">>
y_sql == <<"y", ".", "s", "q", "l">>
dot_sql == <<".", "s", "q", "l">>

\* the glob pattern "*.sql"
MatchesGlob(fname) ==
    /\ Len(fname) >= Len(dot_sql)
    /\ SubSeq(fname, Len(fname) - Len(dot_sql) + 1, Len(fname)) = dot_sql

\* string comparison by code point
RECURSIVE StrLess(_, _)
StrLess(s, t) ==
    IF s = <<>> THEN t # <<>>
    ELSE IF t = <<>> THEN FALSE
    ELSE IF Head(s) = Head(t) THEN StrLess(Tail(s), Tail(t))
    ELSE Ord(Head(s)) < Ord(Head(t))

\* sorted(paths)
RECURSIVE Sorted(_)
Sorted(S) ==
    IF S = {} THEN <<>>
    ELSE LET lo == CHOOSE x \in S : \A y \in S \ {x} : StrLess(x, y)
         IN  <<lo>> \o Sorted(S \ {lo})

\* the orders in which a directory iterator may yield a set of entries
Orders(S) ==
    {o \in [1..Cardinality(S) -> S] : \A i, j \in DOMAIN o : i # j => o[i] # o[j]}

\* "\n".join(texts)
RECURSIVE JoinNewline(_)
JoinNewline(texts) ==
    IF texts = <<>> THEN <<>>
    ELSE IF Len(texts) = 1 THEN texts[1]
    ELSE texts[1] \o <<"\n">> \o JoinNewline(Tail(texts))

RECURSIVE Flatten(_)
Flatten(seqs) == IF seqs = <<>> THEN <<>> ELSE Head(seqs) \o Flatten(Tail(seqs))


\* str(n) as interpolated by an f-string
RECURSIVE Digits(_)
Digits(n) ==
    IF n < 10 THEN <<DigitChars[n + 1]>>
    ELSE Digits(n \div 10) \o <<DigitChars[(n % 10) + 1]>>

\* ---------------------------------------------------------------- inputs
\* statements a schema file is made of
S1 == <<"c", "r", "e", "a", "t", "e", " ", "p", "o", "l", "i", "c", "y", " ",
        "p", " ", "o", "n", " ", "t", ";", "\n">>
S2 == <<"C", "R", "E", "A", "T", "E", " ", "P", "O", "L", "I", "C", "Y", " ",
        "\"", "p", "\"", " ", "O", "N", " ", "u", ";", "\n">>
S3 == <<"c", "r", "e", "a", "t", "e", " ", "p", "o", "l", "i", "c", "y", " ",
        "p", "q", " ", "o", "n", " ", "t", ";", "\n">>
S4 == <<"c", "r", "e", "a", "t", "e", " ", "t", "a", "b", "l", "e", " ", "t", ";", "\n">>

\* contents a migration file may have
M1 == <<"c", "r", "e", "a", "t", "e", " ", "p", "o", "l", "i", "c", "y", " ",
        "p", "q", " ", "o", "n", " ", "t", ";">>
M2 == <<"C", "r", "e", "a", "t", "e", " ", "P", "o", "l", "i", "c", "y", " ",
        "\"", "P", "\"", " ", "o", "n", " ", "v", ";">>
M3 == <<"c", "r", "e", "a", "t", "e", " ", "p", "o", "l", "i", "c", "y">>
M4 == <<"p", " ", "o", "n", " ", "t", ";">>

SchemaFrags == {S1, S2, S3}
SchemaTexts ==
    {Flatten(fs) : fs \in UNION {[1..n -> SchemaFrags] : n \in 0..MaxFrags}}
    \cup {S4}
SecondTexts == {S1, S4}

\* a directory is a function from the names of its files to their text
SchemaDirs ==
    {[f \in {a_sql, n_txt} \cup bs |->
         IF f = a_sql THEN ta ELSE IF f = n_txt THEN S1 ELSE tb] :
       ta \in SchemaTexts, tb \in SecondTexts, bs \in {{}, {b_sql}}}
    \cup {[f \in {n_txt} |-> S1]}

FirstMigrations == {M1, M2, M3}
SecondMigrations == {M4}

MigrationDirs ==
    {[f \in xs \cup ys |-> IF f = x_sql THEN tx ELSE ty] :
       tx \in FirstMigrations, ty \in SecondMigrations,
       xs \in {{}, {x_sql}}, ys \in {{}, {y_sql}}}

StaleOutput == <<[kind |-> "stale", args |-> <<>>]>>

\* ----------------------------------------------------------------- state
VARIABLES
    schema_exists,      \* SCHEMA_DIR exists
    schema_files,       \* the files of SCHEMA_DIR
    migrations_exists,  \* MIGRATIONS_DIR exists
    migration_files,    \* the files of MIGRATIONS_DIR
    unreadable,         \* names of the files whose read_text() raises
    output,             \* the content of OUTPUT_PATH
    pc,                 \* position of the current run
    migration_text,     \* generate_policy_report: migration_text
    paths,              \* _collect_policy_rows: schema paths still to visit
    sections,           \* _collect_policy_rows: sections
    unique,             \* _collect_policy_rows: unique
    missing,            \* _collect_policy_rows: missing
    run,                \* number of the current invocation
    output_before,      \* content of OUTPUT_PATH when the current run began
    written             \* the documents written by the runs so far

inputs == <<schema_exists, schema_files, migrations_exists, migration_files, unreadable>>
locals == <<migration_text, paths, sections, unique, missing>>
vars == <<inputs, output, pc, locals, run, output_before, written>>

\* Path.glob("*.sql") of a directory
Glob(exists, files) ==
    IF exists THEN {f \in DOMAIN files : MatchesGlob(f)} ELSE {}

Init ==
    /\ schema_exists \in BOOLEAN
    /\ schema_files \in (IF schema_exists THEN SchemaDirs ELSE {<<>>})
    /\ migrations_exists \in BOOLEAN
    /\ migration_files \in (IF migrations_exists THEN MigrationDirs ELSE {<<>>})
    /\ unreadable \in {{}} \cup {{f} : f \in {b_sql} \cap DOMAIN schema_files}
                        \cup {{f} : f \in {y_sql} \cap DOMAIN migration_files}
    /\ output = StaleOutput
    /\ pc = "read_migrations"
    /\ migration_text = <<>>
    /\ paths = <<>>
    /\ sections = <<>>
    /\ unique = {}
    /\ missing = <<>>
    /\ run = 1
    /\ output_before = StaleOutput
    /\ written = <<>>

\* --------------------------------------------------------- _read_migrations
ReadMigrationsAbsent ==
    /\ pc = "read_migrations"
    /\ ~migrations_exists
    /\ migration_text' = <<>>
    /\ pc' = "collect_init"
    /\ UNCHANGED <<inputs, output, paths, sections, unique, missing, run,
                   output_before, written>>

\* the iteration order of MIGRATIONS_DIR.glob is not fixed by the code
ReadMigrations ==
    /\ pc = "read_migrations"
    /\ migrations_exists
    /\ Glob(TRUE, migration_files) \cap unreadable = {}
    /\ \E order \in Orders(Glob(TRUE, migration_files)) :
          migration_text' =
              JoinNewline([i \in DOMAIN order |-> migration_files[order[i]]])
    /\ pc' = "collect_init"
    /\ UNCHANGED <<inputs, output, paths, sections, unique, missing, run,
                   output_before, written>>

ReadMigrationsFail ==
    /\ pc = "read_migrations"
    /\ migrations_exists
    /\ Glob(TRUE, migration_files) \cap unreadable # {}
    /\ pc' = "failed"
    /\ UNCHANGED <<inputs, output, locals, run, output_before, written>>

\* ------------------------------------------------------ _collect_policy_rows
\* variant: the schema files in the reverse of the sorted order
SchemaPaths_Reversed(exists, files) ==
    LET srt == Sorted(Glob(exists, files))
    IN  [i \in DOMAIN srt |-> srt[Len(srt) + 1 - i]]

SchemaPaths(exists, files) == Sorted(Glob(exists, files))

BeginCollect ==
    /\ pc = "collect_init"
    /\ sections' = <<>>
    /\ unique' = {}
    /\ missing' = <<>>
    /\ paths' = SchemaPaths(schema_exists, schema_files)
    /\ pc' = "collect"
    /\ UNCHANGED <<inputs, output, migration_text, run, output_before, written>>

\* variant: a declaration counts as found only when the migrations declare
\* the same name on the same table
RowOf_TableAware(m, text) ==
    <<m.name, m.table,
      \E i \in 1..Len(text) :
          LET mm == PolicyMatchAt(text, i)
          IN  /\ mm.ok
              /\ Len(mm.name) = Len(m.name)
              /\ LitAt(mm.name, 1, m.name)
              /\ mm.table = m.table>>

\* the row appended for one match
RowOf(m, text) == <<m.name, m.table, NameSearch(m.name, text)>>

FileRows(text, mtext) ==
    LET ms == FindIter(text) IN [i \in DOMAIN ms |-> RowOf(ms[i], mtext)]

\* variant: unique keyed by the policy name alone
UniqueKeys_ByName(rows) == {<<rows[i][1]>> : i \in DOMAIN rows}

\* the keys one file adds to unique
UniqueKeys(rows) == {<<rows[i][1], rows[i][2]>> : i \in DOMAIN rows}

\* variant: a name is reported missing at most once per file
RECURSIVE MissingEntries_OncePerName(_, _)
MissingEntries_OncePerName(rows, fname) ==
    IF rows = <<>> THEN <<>>
    ELSE LET rest == MissingEntries_OncePerName(Tail(rows), fname)
             r == Head(rows)
         IN  IF ~r[3] /\ ~\E i \in DOMAIN rest : rest[i][1] = r[1]
             THEN <<<<r[1], r[2], fname>>>> \o rest
             ELSE rest

\* variant: the test on in_migrations inverted
RECURSIVE MissingEntries_Inverted(_, _)
MissingEntries_Inverted(rows, fname) ==
    IF rows = <<>> THEN <<>>
    ELSE (IF Head(rows)[3]
          THEN <<<<Head(rows)[1], Head(rows)[2], fname>>>> ELSE <<>>)
         \o MissingEntries_Inverted(Tail(rows), fname)

\* the entries one file appends to missing
RECURSIVE MissingEntries(_, _)
MissingEntries(rows, fname) ==
    IF rows = <<>> THEN <<>>
    ELSE (IF ~Head(rows)[3]
          THEN <<<<Head(rows)[1], Head(rows)[2], fname>>>> ELSE <<>>)
         \o MissingEntries(Tail(rows), fname)

CollectFile ==
    /\ pc = "collect"
    /\ paths # <<>>
    /\ Head(paths) \notin unreadable
    /\ LET fname == Head(paths)
           rows == FileRows(schema_files[fname], migration_text)
       IN  /\ unique' = unique \cup UniqueKeys(rows)
           /\ missing' = missing \o MissingEntries(rows, fname)
           /\ sections' = Append(sections, <<fname, rows>>)
    /\ paths' = Tail(paths)
    /\ UNCHANGED <<inputs, output, pc, migration_text, run, output_before, written>>

\* variant: an unreadable schema file is skipped and the loop goes on
CollectFileFail_Skip ==
    /\ pc = "collect"
    /\ paths # <<>>
    /\ Head(paths) \in unreadable
    /\ paths' = Tail(paths)
    /\ UNCHANGED <<inputs, output, pc, migration_text, sections, unique, missing,
                   run, output_before, written>>

CollectFileFail ==
    /\ pc = "collect"
    /\ paths # <<>>
    /\ Head(paths) \in unreadable
    /\ pc' = "failed"
    /\ UNCHANGED <<inputs, output, locals, run, output_before, written>>

\* ------------------------------------------------------------ _render_table
Line(kind, args) == [kind |-> kind, args |-> args]

render_table(rows) ==
    <<Line("table_header", <<>>), Line("table_rule", <<>>)>>
    \o [i \in DOMAIN rows |->
          Line("table_row", <<rows[i][1], rows[i][2],
                              IF rows[i][3] THEN <<"check">> ELSE <<"cross">>>>)]

\* ---------------------------------------------------- generate_policy_report
RECURSIVE SectionLines(_)
SectionLines(secs) ==
    IF secs = <<>> THEN <<>>
    ELSE <<Line("file_heading", <<Head(secs)[1]>>)>>
         \o render_table(Head(secs)[2])
         \o <<Line("blank", <<>>)>>
         \o SectionLines(Tail(secs))

\* variant: the missing-coverage table is emitted even when missing is empty
ReportLines_AlwaysTable(secs, unique_count, miss) ==
    <<Line("title", <<>>),
      Line("summary_heading", <<>>),
      Line("unique_count", <<Digits(unique_count)>>)>>
    \o (IF miss # <<>>
        THEN <<Line("missing_count", <<Digits(Len(miss))>>)>>
        ELSE <<Line("all_present", <<>>)>>)
    \o <<Line("duplication_note", <<>>)>>
    \o <<Line("missing_heading", <<>>),
         Line("missing_header", <<>>),
         Line("missing_rule", <<>>)>>
    \o [i \in DOMAIN miss |-> Line("missing_row", miss[i])]
    \o <<Line("blank", <<>>)>>
    \o SectionLines(secs)

\* variant: the summary interpolates unique_count where it reports the gaps
ReportLines_SummaryUnique(secs, unique_count, miss) ==
    <<Line("title", <<>>),
      Line("summary_heading", <<>>),
      Line("unique_count", <<Digits(unique_count)>>)>>
    \o (IF miss # <<>>
        THEN <<Line("missing_count", <<Digits(unique_count)>>)>>
        ELSE <<Line("all_present", <<>>)>>)
    \o <<Line("duplication_note", <<>>)>>
    \o (IF miss # <<>>
        THEN <<Line("missing_heading", <<>>),
               Line("missing_header", <<>>),
               Line("missing_rule", <<>>)>>
             \o [i \in DOMAIN miss |-> Line("missing_row", miss[i])]
             \o <<Line("blank", <<>>)>>
        ELSE <<Line("no_gaps_callout", <<>>)>>)
    \o SectionLines(secs)

ReportLines(secs, unique_count, miss) ==
    <<Line("title", <<>>),
      Line("summary_heading", <<>>),
      Line("unique_count", <<Digits(unique_count)>>)>>
    \o (IF miss # <<>>
        THEN <<Line("missing_count", <<Digits(Len(miss))>>)>>
        ELSE <<Line("all_present", <<>>)>>)
    \o <<Line("duplication_note", <<>>)>>
    \o (IF miss # <<>>
        THEN <<Line("missing_heading", <<>>),
               Line("missing_header", <<>>),
               Line("missing_rule", <<>>)>>
             \o [i \in DOMAIN miss |-> Line("missing_row", miss[i])]
             \o <<Line("blank", <<>>)>>
        ELSE <<Line("no_gaps_callout", <<>>)>>)
    \o SectionLines(secs)

WriteReport ==
    /\ pc = "collect"
    /\ paths = <<>>
    /\ output' = ReportLines(sections, Cardinality(unique), missing)
    /\ written' = Append(written, output')
    /\ pc' = "done"
    /\ UNCHANGED <<inputs, locals, run, output_before>>

\* the script is invoked again; nothing but the files survives a run
Rerun ==
    /\ pc \in {"done", "failed"}
    /\ run < MaxRuns
    /\ run' = run + 1
    /\ pc' = "read_migrations"
    /\ migration_text' = <<>>
    /\ paths' = <<>>
    /\ sections' = <<>>
    /\ unique' = {}
    /\ missing' = <<>>
    /\ output_before' = output
    /\ UNCHANGED <<inputs, output, written>>

Next ==
    \/ ReadMigrationsAbsent
    \/ ReadMigrations
    \/ ReadMigrationsFail
    \/ BeginCollect
    \/ CollectFile
    \/ CollectFileFail
    \/ WriteReport
    \/ Rerun

Spec == Init /\ [][Next]_vars

TypeOK == pc \in {"read_migrations", "collect_init", "collect", "done", "failed"}

\* ------------------------------------------------------------- vocabulary
\* two names are the same name, compared case-insensitively
SameName(a, b) == Len(a) = Len(b) /\ LitAt(a, 1, b)

\* the policy declaration at position i of a text: the 'create policy' phrase
\* followed by a name, quoted or bare, taken whole
DeclaredNameAt(text, i) ==
    IF ~LitAt(text, i, kw_create) THEN [ok |-> FALSE, name |-> <<>>]
    ELSE LET d == AfterCreatePolicy(text, i)
             quoted == d <= Len(text) /\ text[d] = "\""
             e == IF quoted THEN RunEnd(text, d + 1, "notquote")
                            ELSE RunEnd(text, d, "name")
         IN  IF d = 0 THEN [ok |-> FALSE, name |-> <<>>]
             ELSE IF quoted
             THEN [ok |-> e > d + 1 /\ e <= Len(text), name |-> SubSeq(text, d + 1, e - 1)]
             ELSE [ok |-> e > d, name |-> SubSeq(text, d, e - 1)]

\* the text declares a policy of that name
MigrationDeclares(text, name) ==
    \E i \in 1..Len(text) :
        LET dn == DeclaredNameAt(text, i) IN dn.ok /\ SameName(dn.name, name)

\* every row collected so far, tagged with its file: <<name, table, found, file>>
TaggedRows ==
    Flatten([i \in DOMAIN sections |->
               [j \in DOMAIN sections[i][2] |->
                  <<sections[i][2][j][1], sections[i][2][j][2],
                    sections[i][2][j][3], sections[i][1]>>]])

CollectFinished == pc = "done" \/ (pc = "collect" /\ paths = <<>>)

Discovered == Glob(schema_exists, schema_files)

\* the declarations of a text, wherever they start
Decls(text) == {m \in {PolicyMatchAt(text, i) : i \in 1..Len(text)} : m.ok}
MatchStarts(text) == {i \in 1..Len(text) : PolicyMatchAt(text, i).ok}

DeclaredPairs ==
    UNION {{<<m.name, m.table>> : m \in Decls(schema_files[f])} : f \in Discovered}

RECURSIVE Ascending(_)
Ascending(S) ==
    IF S = {} THEN <<>>
    ELSE LET lo == CHOOSE x \in S : \A y \in S : x <= y
         IN  <<lo>> \o Ascending(S \ {lo})

RECURSIVE ParseInt(_)
ParseInt(ds) ==
    IF ds = <<>> THEN 0
    ELSE 10 * ParseInt(SubSeq(ds, 1, Len(ds) - 1))
         + (CHOOSE i \in DOMAIN DigitChars : DigitChars[i] = ds[Len(ds)]) - 1

\* positions of the lines of one kind in a document
LinesOf(doc, kind) == {i \in DOMAIN doc : doc[i].kind = kind}
Has(doc, kind) == LinesOf(doc, kind) # {}
CrossRows(doc) ==
    {i \in LinesOf(doc, "table_row") : doc[i].args[3] = <<"cross">>}

\* the sequence of the elements of s that satisfy the flag test
RECURSIVE NotFoundOf(_)
NotFoundOf(rows) ==
    IF rows = <<>> THEN <<>>
    ELSE (IF Head(rows)[3] THEN <<>> ELSE <<Head(rows)>>) \o NotFoundOf(Tail(rows))

\* ------------------------------------------------------------------ claims

C2_OneEntryPerNameAndFile ==
    LET tr == TaggedRows IN
    CollectFinished =>
        /\ \A i \in DOMAIN tr :
              ~tr[i][3] =>
                 Cardinality({k \in DOMAIN missing :
                                 /\ missing[k][1] = tr[i][1]
                                 /\ missing[k][3] = tr[i][4]}) = 1
        /\ \A i \in DOMAIN tr :
              tr[i][3] =>
                 ~\E k \in DOMAIN missing :
                      /\ missing[k][1] = tr[i][1]
                      /\ missing[k][3] = tr[i][4]

\* C2 (amended): once the collection has finished, the missing list holds
\* exactly one entry (name, table, file) per not-found declaration occurrence:
\* for every file, name and table, as many entries as the file has not-found
\* rows of that name and table, and no entry for a found declaration.
C2_OneEntryPerOccurrence ==
    LET tr == TaggedRows IN
    CollectFinished =>
        /\ \A i \in DOMAIN tr :
              LET r == tr[i]
                  entries == {k \in DOMAIN missing : missing[k] = <<r[1], r[2], r[4]>>}
                  occurrences == {j \in DOMAIN tr :
                                     /\ tr[j][1] = r[1]
                                     /\ tr[j][2] = r[2]
                                     /\ tr[j][4] = r[4]}
              IN  IF r[3] THEN entries = {}
                          ELSE Cardinality(entries) = Cardinality(occurrences)
        /\ \A k \in DOMAIN missing :
              \E i \in DOMAIN tr :
                  /\ ~tr[i][3]
                  /\ missing[k] = <<tr[i][1], tr[i][2], tr[i][4]>>

\* a file declares the same name twice, neither found, next to a found row
C2_Witness ==
    LET tr == TaggedRows IN
    /\ pc = "done"
    /\ \E i, j \in DOMAIN tr :
          /\ i # j
          /\ tr[i][1] = tr[j][1]
          /\ tr[i][4] = tr[j][4]
          /\ ~tr[i][3]
    /\ \E i \in DOMAIN tr : tr[i][3]

\* C3 (as stated): the unique count returned and printed equals the number of
\* distinct (name, table) pairs over all declarations, and a name declared in
\* several schema files contributes exactly one to it.
C3_NameCountsOnce ==
    LET tr == TaggedRows
        dp == DeclaredPairs
    IN
    pc = "done" =>
        /\ Cardinality(unique) = Cardinality(dp)
        /\ \A i, j \in DOMAIN tr :
              (tr[i][1] = tr[j][1] /\ tr[i][4] # tr[j][4])
                 => Cardinality({k \in unique : k[1] = tr[i][1]}) = 1

\* C3 (amended): the unique count returned and printed equals the number of
\* distinct (name, table) pairs over all declarations of all schema files; a
\* (name, table) pair declared in several schema files contributes exactly
\* one to it, and a name declared on several tables one per table.
C3_UniqueCountIsDistinctPairs ==
    LET tr == TaggedRows
        dp == DeclaredPairs
    IN
    pc = "done" =>
        /\ Cardinality(unique) = Cardinality(dp)
        /\ \A i \in LinesOf(output, "unique_count") :
              ParseInt(output[i].args[1]) = Cardinality(dp)
        /\ Cardinality(LinesOf(output, "unique_count")) = 1
        /\ \A i \in DOMAIN tr :
              Cardinality({k \in unique : k = <<tr[i][1], tr[i][2]>>}) = 1

\* the same (name, table) pair in two files, and the same name on two tables
C3_Witness ==
    LET tr == TaggedRows IN
    /\ pc = "done"
    /\ \E i, j \in DOMAIN tr :
          /\ tr[i][1] = tr[j][1]
          /\ tr[i][2] = tr[j][2]
          /\ tr[i][4] # tr[j][4]
    /\ \E i, j \in DOMAIN tr :
          /\ tr[i][1] = tr[j][1]
          /\ tr[i][2] # tr[j][2]

\* C4: every run over unchanged schema and migration files writes the same
\* document, whatever the output held before and whatever an earlier run did.
C4_SameDocumentEveryRun ==
    \A i, j \in DOMAIN written : written[i] = written[j]

\* C5: with no migrations directory the run does not fail there, the
\* migration text is empty, every declaration is marked not-found and is in
\* the missing list, and the summary's missing count is the number of rows.
C5_AbsentMigrationsAllMissing ==
    LET tr == TaggedRows IN
    ~migrations_exists =>
        /\ migration_text = <<>>
        /\ (pc = "failed" => paths # <<>> /\ Head(paths) \in unreadable)
        /\ \A i \in DOMAIN tr : ~tr[i][3]
        /\ Len(missing) = Len(tr)
        /\ \A i \in DOMAIN tr :
              missing[i] = <<tr[i][1], tr[i][2], tr[i][4]>>
        /\ (pc = "done" /\ tr # <<>>) =>
              /\ Cardinality(LinesOf(output, "missing_count")) = 1
              /\ \A i \in LinesOf(output, "missing_count") :
                    ParseInt(output[i].args[1]) = Len(tr)
              /\ Cardinality(LinesOf(output, "missing_row")) = Len(tr)
              /\ CrossRows(output) = LinesOf(output, "table_row")

C5_Witness ==
    LET tr == TaggedRows IN
    /\ ~migrations_exists
    /\ pc = "done"
    /\ Len(tr) >= 2
    /\ Len(sections) = 2

\* C6: when no declaration is extracted, whatever the migrations contain, the
\* report states a unique count of 0, the missing list is empty, there is no
\* missing-coverage table, and the no-gaps sentence and callout are emitted.
C6_NoDeclarationsEmptyReport ==
    (pc = "done" /\ DeclaredPairs = {}) =>
        /\ Cardinality(LinesOf(output, "unique_count")) = 1
        /\ \A i \in LinesOf(output, "unique_count") : output[i].args[1] = <<"0">>
        /\ missing = <<>>
        /\ ~Has(output, "missing_count")
        /\ ~Has(output, "missing_heading")
        /\ ~Has(output, "missing_header")
        /\ ~Has(output, "missing_row")
        /\ Cardinality(LinesOf(output, "all_present")) = 1
        /\ Cardinality(LinesOf(output, "no_gaps_callout")) = 1

\* a schema file without a declaration, reported against a non-empty corpus
C6_Witness ==
    /\ pc = "done"
    /\ DeclaredPairs = {}
    /\ Discovered # {}
    /\ \E f \in Discovered : schema_files[f] # <<>>
    /\ migration_text # <<>>

\* C7: a written report has exactly one of the missing-coverage table and the
\* no-gaps callout; the table is there iff some per-file row carries the
\* not-found glyph, the summary's missing count is then the number of rows of
\* the table and the number of not-found per-file rows; the 'every policy
\* definition is present' sentence is there iff the callout is.
C7_TableXorCallout ==
    pc = "done" =>
        /\ Has(output, "missing_heading") # Has(output, "no_gaps_callout")
        /\ Has(output, "missing_heading") <=> CrossRows(output) # {}
        /\ Has(output, "missing_heading") =>
              /\ Cardinality(LinesOf(output, "missing_heading")) = 1
              /\ Cardinality(LinesOf(output, "missing_count")) = 1
              /\ \A i \in LinesOf(output, "missing_count") :
                    /\ ParseInt(output[i].args[1])
                          = Cardinality(LinesOf(output, "missing_row"))
                    /\ ParseInt(output[i].args[1]) = Cardinality(CrossRows(output))
        /\ ~Has(output, "missing_heading") =>
              /\ ~Has(output, "missing_count")
              /\ ~Has(output, "missing_row")
        /\ Has(output, "all_present") <=> Has(output, "no_gaps_callout")

\* a report over two files with the table, a not-found row and a found row
C7_Witness ==
    /\ pc = "done"
    /\ Has(output, "missing_heading")
    /\ Len(sections) = 2
    /\ CrossRows(output) # {}
    /\ CrossRows(output) # LinesOf(output, "table_row")

\* C8: the report has one subsection per discovered schema file, also for a
\* file without declarations, in ascending file-name order; the rows of a
\* subsection are in the order of the declarations in the file's text; the
\* missing list is the subsequence of the not-found rows of the concatenated
\* per-file row lists.
C8_SectionAndRowOrder ==
    LET tr == TaggedRows IN
    pc = "done" =>
        LET heads == Ascending(LinesOf(output, "file_heading"))
        IN  /\ Len(heads) = Cardinality(Discovered)
            /\ {output[heads[i]].args[1] : i \in DOMAIN heads} = Discovered
            /\ \A i, j \in DOMAIN heads :
                  i < j => StrLess(output[heads[i]].args[1], output[heads[j]].args[1])
            /\ Len(sections) = Len(heads)
            /\ \A i \in DOMAIN heads :
                  LET fname == output[heads[i]].args[1]
                      text == schema_files[fname]
                      starts == Ascending(MatchStarts(text))
                      rows == sections[i][2]
                  IN  /\ sections[i][1] = fname
                      /\ Len(rows) = Len(starts)
                      /\ \A k \in DOMAIN rows :
                            /\ rows[k][1] = PolicyMatchAt(text, starts[k]).name
                            /\ rows[k][2] = PolicyMatchAt(text, starts[k]).table
                            /\ output[heads[i] + 2 + k].kind = "table_row"
                            /\ output[heads[i] + 2 + k].args[1] = rows[k][1]
                            /\ output[heads[i] + 2 + k].args[2] = rows[k][2]
            /\ LET nf == NotFoundOf(tr)
               IN  missing = [k \in DOMAIN nf |-> <<nf[k][1], nf[k][2], nf[k][4]>>]

\* two files, the first with two different declarations, the second with
\* none, and a gap
C8_Witness ==
    /\ pc = "done"
    /\ Len(sections) = 2
    /\ Len(sections[1][2]) = 2
    /\ sections[1][2][1] # sections[1][2][2]
    /\ sections[2][2] = <<>>
    /\ missing # <<>>

\* C9: when reading a migration file or a schema file fails, the run aborts
\* and never writes: the output keeps the content it had before the run, no
\* partial report is written, and the failing file is not skipped.
C9_ReadFailureAborts ==
    /\ pc = "failed" => output = output_before
    /\ (Discovered \cup Glob(migrations_exists, migration_files)) \cap unreadable # {}
          => /\ pc # "done"
             /\ written = <<>>
             /\ output = StaleOutput

\* the run failed on the second schema file after collecting the first
C9_Witness ==
    /\ pc = "failed"
    /\ Len(sections) = 1
    /\ sections[1][2] # <<>>
    /\ missing # <<>>

\* C10: within a run the found flag depends on the name and the corpus only:
\* declarations of the same name have the same flag whatever their tables and
\* files, and a name the migrations declare is found whatever the table the
\* migrations declare it on.
C10_FlagDependsOnNameOnly ==
    LET tr == TaggedRows IN
    /\ \A i, j \in DOMAIN tr :
          tr[i][1] = tr[j][1] => tr[i][3] = tr[j][3]
    /\ \A i \in DOMAIN tr :
          MigrationDeclares(migration_text, tr[i][1]) => tr[i][3]

\* one name on two tables in two files, found, while the migrations declare
\* the name on a third table only
C10_Witness ==
    LET tr == TaggedRows IN
    /\ pc = "done"
    /\ migration_text = M2
    /\ \E i, j \in DOMAIN tr :
          /\ tr[i][1] = tr[j][1]
          /\ tr[i][2] # tr[j][2]
          /\ tr[i][4] # tr[j][4]
          /\ tr[i][3]
          /\ tr[j][3]

====
